---- MODULE Spec2Model ----
(***************************************************************************)
(* Model of automate_aspr (src/automate_apsr.js): the pagination loop      *)
(* collect_aspr_data, the page collector collect_aspr_page_data, the two   *)
(* timed field retrievals, the terminal log/export/flush, and the text     *)
(* normalisation.                                                          *)
(*                                                                         *)
(* Text is a sequence of one-character tokens.  Characters outside ASCII   *)
(* are written by their HTML entity names: "SQRT" is U+221A, "ograve" is   *)
(* U+00F2, "Oslash" is U+00D8, "copy" is U+00A9, "eacute" is U+00E9, and   *)
(* so on; "comb_acute" is the combining acute accent U+0301.               *)
(***************************************************************************)
EXTENDS Integers, Sequences, FiniteSets, TLC

VARIABLES
    pc,               \* position of the single control flow
    collection_count, \* the run parameter
    aspr_data,        \* collected records
    next_page_link,   \* <<>> when undefined/null, <<p>> for the control found on page p
    page_count,
    errors,
    warnings,
    doc,              \* the document currently shown by the browser
    row_index,        \* position of the for-of loop over the rows of the page
    cur,              \* <<>> or <<r>>: the row whose extraction is in progress
    io,               \* what the run has done to the outside: clicks, console, file sink
    timers,           \* the pending setTimeout callbacks
    norm              \* a text and its successive normalisations (NormSpec only)

vars == <<pc, collection_count, aspr_data, next_page_link, page_count,
          errors, warnings, doc, row_index, cur, io, timers, norm>>

----------------------------------------------------------------------------
(* Bounds *)

MaxCount == 2       \* collection_count ranges over 1..MaxCount
MaxRows  == 2       \* entry rows on one page
MaxPages == 2       \* page transitions in one run
MaxTextLen == 3     \* characters of a text given to NormalizeEncoding on its own

----------------------------------------------------------------------------
(* Text *)

Whitespace == {" ", "\t", "\n"}

RECURSIVE TrimLeft(_)
TrimLeft(s) ==
    IF s # <<>> /\ Head(s) \in Whitespace THEN TrimLeft(Tail(s)) ELSE s

RECURSIVE TrimRight(_)
TrimRight(s) ==
    IF s # <<>> /\ s[Len(s)] \in Whitespace
    THEN TrimRight(SubSeq(s, 1, Len(s) - 1))
    ELSE s

Trim(s) == TrimRight(TrimLeft(s))

\* canonical composition, restricted to the characters of the model's alphabet
ComposePairs ==
    << <<"e", "comb_acute", "eacute">>,
       <<"a", "comb_acute", "aacute">>,
       <<"o", "comb_uml",   "ouml">> >>

Composed(a, b) ==
    {ComposePairs[i][3] : i \in {j \in 1..Len(ComposePairs) :
                                    ComposePairs[j][1] = a /\ ComposePairs[j][2] = b}}

RECURSIVE NormalizeNFC(_)
NormalizeNFC(s) ==
    IF Len(s) < 2 THEN s
    ELSE IF Composed(s[1], s[2]) # {}
         THEN <<CHOOSE c \in Composed(s[1], s[2]) : TRUE>>
                  \o NormalizeNFC(SubSeq(s, 3, Len(s)))
         ELSE <<s[1]>> \o NormalizeNFC(Tail(s))

\* String.prototype.replace with a two-character global pattern
RECURSIVE ReplaceAll(_, _, _, _)
ReplaceAll(s, a, b, out) ==
    IF Len(s) < 2 THEN s
    ELSE IF s[1] = a /\ s[2] = b
         THEN <<out>> \o ReplaceAll(SubSeq(s, 3, Len(s)), a, b, out)
         ELSE <<s[1]>> \o ReplaceAll(Tail(s), a, b, out)

\* the replacements of NormalizeEncoding, in the order of the source
ReplacementTable ==
    << <<"SQRT", "ograve", "Oslash">>,
       <<"SQRT", "para",   "aelig">>,
       <<"SQRT", "para",   "aring">>,
       <<"SQRT", "prod",   "Aring">>,
       <<"SQRT", "ordm",   "oslash">>,
       <<"SQRT", "sect",   "szlig">>,
       <<"SQRT", "copy",   "eacute">>,
       <<"SQRT", "uml",    "egrave">>,
       <<"SQRT", "icirc",  "ouml">>,
       <<"SQRT", "ntilde", "uuml">>,
       <<"SQRT", "Auml",   "auml">>,
       <<"SQRT", "aacute", "aacute">>,
       <<"SQRT", "iacute", "iacute">>,
       <<"SQRT", "oacute", "oacute">>,
       <<"SQRT", "uacute", "uacute">>,
       <<"SQRT", "agrave", "agrave">>,
       <<"SQRT", "ugrave", "ugrave">>,
       <<"SQRT", "acirc",  "acirc">>,
       <<"SQRT", "ecirc",  "ecirc">>,
       <<"SQRT", "icirc",  "icirc">>,
       <<"SQRT", "ocirc",  "ocirc">>,
       <<"SQRT", "ucirc",  "ucirc">>,
       <<"SQRT", "euml",   "euml">>,
       <<"SQRT", "iuml",   "iuml">>,
       <<"SQRT", "yuml",   "yuml">>,
       <<"SQRT", "aelig",  "aelig">>,
       <<"SQRT", "AElig",  "AElig">>,
       <<"SQRT", "Oslash", "Oslash">>,
       <<"SQRT", "ouml",   "ouml">> >>

RECURSIVE ApplyReplacements(_, _)
ApplyReplacements(s, i) ==
    IF i > Len(ReplacementTable) THEN s
    ELSE ApplyReplacements(
             ReplaceAll(s, ReplacementTable[i][1], ReplacementTable[i][2],
                        ReplacementTable[i][3]),
             i + 1)

NormalizeEncoding(text) == ApplyReplacements(NormalizeNFC(Trim(text)), 1)

\* Array.prototype.join(', ')
RECURSIVE Join(_)
Join(parts) ==
    IF parts = <<>> THEN <<>>
    ELSE IF Len(parts) = 1 THEN parts[1]
    ELSE parts[1] \o <<",", " ">> \o Join(Tail(parts))

\* the decimal digits of a non-negative number, as string concatenation prints it
RECURSIVE NumToString(_)
NumToString(n) ==
    LET d == <<"0", "1", "2", "3", "4", "5", "6", "7", "8", "9">>
    IN  IF n < 10 THEN <<d[n + 1]>>
        ELSE NumToString(n \div 10) \o <<d[(n % 10) + 1]>>

NA == <<"N", "/", "A">>

----------------------------------------------------------------------------
(* Diagnostics *)

SelectorError == <<"Selector ", "#maincontent", " NOT found.">>

NoResultsError == <<"No search results found.">>

\* the error of line 28 built with the number of the page that would come next
NextLinkError_NextPage(n) ==
    <<"Next page link not found on page ">> \o NumToString(n + 1) \o <<".">>

NextLinkError(n) ==
    <<"Next page link not found on page ">> \o NumToString(n) \o <<".">>

NextLinkWarning ==
    <<"Next page link NOT found. Collection quantity may run short.">>

\* the warning of line 115 without the title interpolated
AbstractFailedWarning_NoTitle(title) ==
    <<"Abstract extraction failed for \"">> \o <<"\".">>

AbstractFailedWarning(title) ==
    <<"Abstract extraction failed for \"">> \o title \o <<"\".">>

AbstractNotFoundWarning(title) ==
    <<"Abstract not found for \"">> \o title \o <<"\".">>

\* the warning of line 144 without the title interpolated
PopupFailedWarning_NoTitle(title) ==
    <<"Popup initiation failed for \"">> \o <<"\".">>

PopupFailedWarning(title) ==
    <<"Popup initiation failed for \"">> \o title \o <<"\".">>

DownloadNotFoundWarning(title) ==
    <<"Download link not found for \"">> \o title \o <<"\".">>

\* ConsoleErrorsAndWarnings prints both buffers and changes neither
ConsoleErrorsAndWarnings(errs, warns) ==
    [type |-> "flush", errors |-> errs, warnings |-> warns]

\* the export without the guard for an empty list
DownlaodResultsAsCSV_AlwaysSaves(jsonData) ==
    [type |-> "export", data |-> jsonData, saved |-> TRUE]

\* DownlaodResultsAsCSV: a notice and no file for an empty list, else one file
DownlaodResultsAsCSV(jsonData) ==
    [type |-> "export", data |-> jsonData, saved |-> (Len(jsonData) # 0)]

----------------------------------------------------------------------------
(* The document *)

Pages ==
    {[container |-> FALSE, next |-> FALSE, nrows |-> 0]}
    \cup [container : {TRUE}, next : BOOLEAN, nrows : 0..MaxRows]

RawTitles == { <<" ", "A">>, <<"SQRT", "copy">> }

RawAuthors == << <<" ", "P">>, <<"Q", " ">> >>

RawDate == <<" ", "2", "0", "2", "0", " ">>

RawCitedBy == <<"7">>

RawAbstracts == { <<"e", "comb_acute", " ">>, <<" ", "N", "/", "A">> }

ArticleHref == <<"https://host/article">>

CitedByHref == <<"https://host/core/services/aop-cambridge-core/download/cited-by">>

\* an entry row: which of the queried elements it has
Rows ==
    [titleEl : BOOLEAN, titleText : RawTitles, dateEl : BOOLEAN,
     citedEl : BOOLEAN, absBtn : BOOLEAN, dlgLink : BOOLEAN]

----------------------------------------------------------------------------
(* Timers *)

base_load_buffer_ms == 2500

\* setTimeout(callback, ms)
Timeout(callback, ms) == [callback |-> callback, ms |-> ms]

----------------------------------------------------------------------------
(* Quota tests *)

\* the loop's quota tests with > written for >=
QuotaMet_OffByOne(n) == n > collection_count

\* collect_aspr_data: the loop continues while this is false, and breaks on it
QuotaMet(n) == n >= collection_count

\* the row test with > written for >=
RowQuotaMet_OffByOne(n) == n > collection_count

\* collect_aspr_page_data: the test before each row
RowQuotaMet(n) == n >= collection_count

----------------------------------------------------------------------------

Init ==
    /\ pc = "while"
    /\ collection_count \in 1..MaxCount
    /\ aspr_data = <<>>
    /\ next_page_link = <<>>
    /\ page_count = 0
    /\ errors = <<>>
    /\ warnings = <<>>
    /\ doc \in Pages
    /\ row_index = 0
    /\ cur = <<>>
    /\ io = <<>>
    /\ timers = {}
    /\ norm = <<>>

\* while (aspr_data.length < collection_count)
LoopTest ==
    /\ pc = "while"
    /\ pc' = IF QuotaMet(Len(aspr_data)) THEN "finish" ELSE "page"
    /\ UNCHANGED <<collection_count, aspr_data, next_page_link, page_count,
                   errors, warnings, doc, row_index, cur, io, timers, norm>>

\* collect_aspr_page_data, up to the loop over the rows
CollectPage ==
    /\ pc = "page"
    /\ IF ~doc.container
       THEN /\ errors' = Append(errors, SelectorError)
            /\ io' = Append(io, ConsoleErrorsAndWarnings(errors', warnings))
            /\ pc' = "after_page"
            /\ UNCHANGED <<next_page_link, warnings, row_index>>
       ELSE IF ~doc.next
       THEN /\ next_page_link' = <<>>
            /\ warnings' = Append(warnings, NextLinkWarning)
            /\ io' = Append(io, ConsoleErrorsAndWarnings(errors, warnings'))
            /\ pc' = "after_page"
            /\ UNCHANGED <<errors, row_index>>
       ELSE IF doc.nrows = 0
       THEN /\ next_page_link' = <<page_count>>
            /\ errors' = Append(errors, NoResultsError)
            /\ io' = Append(io, ConsoleErrorsAndWarnings(errors', warnings))
            /\ pc' = "after_page"
            /\ UNCHANGED <<warnings, row_index>>
       ELSE /\ next_page_link' = <<page_count>>
            /\ row_index' = 1
            /\ pc' = "row"
            /\ UNCHANGED <<errors, warnings, io>>
    /\ UNCHANGED <<collection_count, aspr_data, page_count, doc, cur, timers, norm>>

\* the synchronous fields of a row (lines 78-88)
RowFields(row) ==
    [row                   |-> row,
     title                 |-> NormalizeEncoding(row.titleText),
     authors               |-> NormalizeEncoding(
                                   Join([i \in 1..Len(RawAuthors) |-> Trim(RawAuthors[i])])),
     published_online_date |-> Trim(RawDate),
     cited_by_count        |-> Trim(RawCitedBy),
     article_link          |-> ArticleHref,
     abstract_content      |-> <<>>,   \* <<>> for null, <<text>> once read
     abstract              |-> <<>>]

\* a property of null is read: the TypeError rejects collect_aspr_page_data
\* and, through the await, collect_aspr_data
Throws(row) == ~row.titleEl \/ ~row.dateEl \/ ~row.citedEl

\* the turn of the for-of loop with RetrieveAbstract not awaited: the flow goes
\* on to RetrieveCitingPapersLink while the abstract timer is pending
RowStart_NoAwait ==
    /\ pc = "row"
    /\ IF row_index > doc.nrows \/ RowQuotaMet(Len(aspr_data))
       THEN /\ pc' = "after_page"
            /\ UNCHANGED <<warnings, cur, io, timers>>
       ELSE \E row \in Rows :
              IF Throws(row)
              THEN /\ pc' = "rejected"
                   /\ UNCHANGED <<warnings, cur, io, timers>>
              ELSE IF ~row.absBtn
              THEN /\ warnings' = Append(warnings,
                                     AbstractFailedWarning(RowFields(row).title))
                   /\ cur' = <<[RowFields(row) EXCEPT !.abstract = NA]>>
                   /\ pc' = "cite"
                   /\ UNCHANGED <<io, timers>>
              ELSE /\ io' = Append(io, [type |-> "click_abstract"])
                   /\ timers' = timers \cup {Timeout("abstract", base_load_buffer_ms)}
                   /\ cur' = <<RowFields(row)>>
                   /\ pc' = "cite"
                   /\ UNCHANGED warnings
    /\ UNCHANGED <<collection_count, aspr_data, next_page_link, page_count,
                   errors, doc, row_index, norm>>

\* one turn of the for-of loop up to the first suspension: the quota test,
\* the synchronous fields, and RetrieveAbstract up to its timer
RowStart ==
    /\ pc = "row"
    /\ IF row_index > doc.nrows \/ RowQuotaMet(Len(aspr_data))
       THEN /\ pc' = "after_page"
            /\ UNCHANGED <<warnings, cur, io, timers>>
       ELSE \E row \in Rows :
              IF Throws(row)
              THEN /\ pc' = "rejected"
                   /\ UNCHANGED <<warnings, cur, io, timers>>
              ELSE IF ~row.absBtn
              THEN /\ warnings' = Append(warnings,
                                     AbstractFailedWarning(RowFields(row).title))
                   /\ cur' = <<[RowFields(row) EXCEPT !.abstract = NA]>>
                   /\ pc' = "cite"
                   /\ UNCHANGED <<io, timers>>
              ELSE /\ io' = Append(io, [type |-> "click_abstract"])
                   /\ timers' = timers \cup {Timeout("abstract", base_load_buffer_ms)}
                   /\ cur' = <<RowFields(row)>>
                   /\ pc' = "abs_wait"
                   /\ UNCHANGED warnings
    /\ UNCHANGED <<collection_count, aspr_data, next_page_link, page_count,
                   errors, doc, row_index, norm>>

\* the timer of RetrieveAbstract fires
AbstractTimer ==
    /\ pc = "abs_wait"
    /\ Timeout("abstract", base_load_buffer_ms) \in timers
    /\ timers' = timers \ {Timeout("abstract", base_load_buffer_ms)}
    /\ \/ /\ warnings' = Append(warnings, AbstractNotFoundWarning(cur[1].title))
          /\ cur' = <<[cur[1] EXCEPT !.abstract = NA]>>
       \/ \E content \in RawAbstracts :
             /\ cur' = <<[cur[1] EXCEPT !.abstract_content = <<content>>,
                                        !.abstract = NormalizeEncoding(content)]>>
             /\ UNCHANGED warnings
    /\ pc' = "cite"
    /\ UNCHANGED <<collection_count, aspr_data, next_page_link, page_count,
                   errors, doc, row_index, io, norm>>

\* the record pushed at the end of a turn of the for-of loop
Record(r, link) ==
    [title                  |-> r.title,
     authors                |-> r.authors,
     published_online_date  |-> r.published_online_date,
     cited_by_count         |-> r.cited_by_count,
     abstract               |-> r.abstract,
     article_link           |-> r.article_link,
     all_citing_papers_link |-> link]

\* RetrieveCitingPapersLink up to its timer; a missing trigger resolves at
\* once and the record is pushed
CiteStart ==
    /\ pc = "cite"
    /\ IF ~cur[1].row.dlgLink
       THEN /\ warnings' = Append(warnings, PopupFailedWarning(cur[1].title))
            /\ aspr_data' = Append(aspr_data, Record(cur[1], NA))
            /\ row_index' = row_index + 1
            /\ cur' = <<>>
            /\ pc' = "row"
            /\ UNCHANGED <<io, timers>>
       ELSE /\ io' = Append(io, [type |-> "click_dialog"])
            /\ timers' = timers \cup {Timeout("cite", base_load_buffer_ms)}
            /\ pc' = "cite_wait"
            /\ UNCHANGED <<warnings, aspr_data, row_index, cur>>
    /\ UNCHANGED <<collection_count, next_page_link, page_count, errors, doc, norm>>

\* the timer of RetrieveCitingPapersLink with the record put at the front of
\* the list (unshift for push)
CiteTimer_Unshift ==
    /\ pc = "cite_wait"
    /\ Timeout("cite", base_load_buffer_ms) \in timers
    /\ timers' = timers \ {Timeout("cite", base_load_buffer_ms)}
    /\ \/ /\ warnings' = Append(warnings, DownloadNotFoundWarning(cur[1].title))
          /\ aspr_data' = <<Record(cur[1], NA)>> \o aspr_data
       \/ /\ aspr_data' = <<Record(cur[1], CitedByHref)>> \o aspr_data
          /\ UNCHANGED warnings
    /\ row_index' = row_index + 1
    /\ cur' = <<>>
    /\ pc' = "row"
    /\ UNCHANGED <<collection_count, next_page_link, page_count, errors, doc, io,
                   norm>>

\* the timer of RetrieveCitingPapersLink fires; the record is pushed
CiteTimer ==
    /\ pc = "cite_wait"
    /\ Timeout("cite", base_load_buffer_ms) \in timers
    /\ timers' = timers \ {Timeout("cite", base_load_buffer_ms)}
    /\ \/ /\ warnings' = Append(warnings, DownloadNotFoundWarning(cur[1].title))
          /\ aspr_data' = Append(aspr_data, Record(cur[1], NA))
       \/ /\ aspr_data' = Append(aspr_data, Record(cur[1], CitedByHref))
          /\ UNCHANGED warnings
    /\ row_index' = row_index + 1
    /\ cur' = <<>>
    /\ pc' = "row"
    /\ UNCHANGED <<collection_count, next_page_link, page_count, errors, doc, io,
                   norm>>

\* collect_aspr_data after the page collection returned (lines 22-33)
AfterPage ==
    /\ pc = "after_page"
    /\ IF QuotaMet(Len(aspr_data))
       THEN /\ pc' = "finish"
            /\ UNCHANGED <<errors, io, timers>>
       ELSE IF next_page_link = <<>>
       THEN /\ errors' = Append(errors, NextLinkError(page_count))
            /\ pc' = "finish"
            /\ UNCHANGED <<io, timers>>
       ELSE /\ page_count < MaxPages
            /\ io' = Append(io, [type |-> "click_next", handle |-> next_page_link[1]])
            /\ timers' = timers \cup {Timeout("navigate", 2 * base_load_buffer_ms)}
            /\ pc' = "nav_wait"
            /\ UNCHANGED errors
    /\ UNCHANGED <<collection_count, aspr_data, next_page_link, page_count,
                   warnings, doc, row_index, cur, norm>>

\* the navigation timer with the page counted twice
NavTimer_DoubleIncrement ==
    /\ pc = "nav_wait"
    /\ Timeout("navigate", 2 * base_load_buffer_ms) \in timers
    /\ timers' = timers \ {Timeout("navigate", 2 * base_load_buffer_ms)}
    /\ page_count' = page_count + 2
    /\ doc' \in Pages
    /\ pc' = "while"
    /\ UNCHANGED <<collection_count, aspr_data, next_page_link, errors,
                   warnings, row_index, cur, io, norm>>

\* the navigation timer fires (lines 33-34); the browser shows whatever the
\* click led to
NavTimer ==
    /\ pc = "nav_wait"
    /\ Timeout("navigate", 2 * base_load_buffer_ms) \in timers
    /\ timers' = timers \ {Timeout("navigate", 2 * base_load_buffer_ms)}
    /\ page_count' = page_count + 1
    /\ doc' \in Pages
    /\ pc' = "while"
    /\ UNCHANGED <<collection_count, aspr_data, next_page_link, errors,
                   warnings, row_index, cur, io, norm>>

\* the terminal stretch with the export made conditional on clean diagnostics
TerminalOutput_SkipOnDiagnostics(data, errs, warns) ==
    IF errs # <<>> \/ warns # <<>>
    THEN << [type |-> "json", data |-> data],
            ConsoleErrorsAndWarnings(errs, warns) >>
    ELSE << [type |-> "json", data |-> data],
            DownlaodResultsAsCSV(data),
            ConsoleErrorsAndWarnings(errs, warns) >>

\* lines 38-40, in one synchronous stretch
TerminalOutput(data, errs, warns) ==
    << [type |-> "json", data |-> data],
       DownlaodResultsAsCSV(data),
       ConsoleErrorsAndWarnings(errs, warns) >>

\* the terminal stretch with the buffers emptied by the flush
Finish_ClearOnFlush ==
    /\ pc = "finish"
    /\ io' = io \o TerminalOutput(aspr_data, errors, warnings)
    /\ errors' = <<>>
    /\ warnings' = <<>>
    /\ pc' = "done"
    /\ UNCHANGED <<collection_count, aspr_data, next_page_link, page_count,
                   doc, row_index, cur, timers, norm>>

Finish ==
    /\ pc = "finish"
    /\ io' = io \o TerminalOutput(aspr_data, errors, warnings)
    /\ pc' = "done"
    /\ UNCHANGED <<collection_count, aspr_data, next_page_link, page_count,
                   errors, warnings, doc, row_index, cur, timers, norm>>

Next ==
    \/ LoopTest
    \/ CollectPage
    \/ RowStart
    \/ AbstractTimer
    \/ CiteStart
    \/ CiteTimer
    \/ AfterPage
    \/ NavTimer
    \/ Finish

Spec == Init /\ [][Next]_vars

----------------------------------------------------------------------------
(* NormalizeEncoding on its own: a text, normalised, and normalised again *)

NormAlphabet == {"SQRT", "aelig", "para", "copy", " ", "A"}

Texts == UNION {[1..n -> NormAlphabet] : n \in 0..MaxTextLen}

NormInit ==
    /\ norm \in {<<text>> : text \in Texts}
    /\ pc = "normalize"
    /\ collection_count = 1
    /\ aspr_data = <<>>
    /\ next_page_link = <<>>
    /\ page_count = 0
    /\ errors = <<>>
    /\ warnings = <<>>
    /\ doc = [container |-> FALSE, next |-> FALSE, nrows |-> 0]
    /\ row_index = 0
    /\ cur = <<>>
    /\ io = <<>>
    /\ timers = {}

NormApply ==
    /\ pc = "normalize"
    /\ Len(norm) < 3
    /\ norm' = Append(norm, NormalizeEncoding(norm[Len(norm)]))
    /\ UNCHANGED <<pc, collection_count, aspr_data, next_page_link, page_count,
                   errors, warnings, doc, row_index, cur, io, timers>>

NormNext == NormApply

NormSpec == NormInit /\ [][NormNext]_vars

----------------------------------------------------------------------------
(* Properties *)

EventsOf(t) == {i \in DOMAIN io : io[i].type = t}

Min(a, b) == IF a < b THEN a ELSE b

\* C1: in every reachable state the number of collected records is at most
\* collection_count.
C1_NeverOverCollects == Len(aspr_data) <= collection_count

\* the quota is reached in the middle of a page: rows remain and are not visited
C1_Witness ==
    /\ pc = "after_page"
    /\ Len(aspr_data) = collection_count
    /\ row_index <= doc.nrows
    /\ row_index > 1

FatalSignalled ==
    \E i \in DOMAIN errors : errors[i] \in {SelectorError, NoResultsError}

\* C2: once a page collection has signalled a fatal condition (container
\* absent, or zero rows), the next-page control is not invoked and no further
\* page is collected.
C2_FatalStopsPagination ==
    [][FatalSignalled => (pc' # "nav_wait" /\ pc' # "page")]_vars

\* C3: a first page whose container is present but has no next-page control
\* still has its rows collected, up to the quota, when its collection returns.
C3_NoNextLinkStillCollects ==
    (pc = "after_page" /\ page_count = 0 /\ doc.container /\ ~doc.next)
        => Len(aspr_data) = Min(doc.nrows, collection_count)

\* C4: a run that has stopped for good has invoked the export.
C4_RunEndsWithExport ==
    pc \in {"done", "rejected"} => EventsOf("export") # {}

\* C5: the absence of one field's element in a row never escapes the
\* extraction as an exception that aborts the run.
C5_MissingFieldNeverAborts == pc # "rejected"

\* C6: when a page collection has found the results container absent, the
\* pending next-page handle is absent when the collection returns.
C6_AbsentContainerClearsHandle ==
    (pc = "after_page" /\ ~doc.container) => next_page_link = <<>>

NoNextLinkErrors ==
    {i \in DOMAIN errors : \E n \in 0..MaxPages : errors[i] = NextLinkError(n)}

\* C7: if the error 'Next page link not found on page <n>.' has been appended,
\* fewer than collection_count records have been collected, and any exported
\* set has fewer than collection_count records.
C7_ExhaustedIsShort ==
    NoNextLinkErrors # {} =>
        /\ Len(aspr_data) < collection_count
        /\ \A i \in EventsOf("export") : Len(io[i].data) < collection_count

\* a run that collected something, then ran out of next-page links, and exported
C7_Witness ==
    /\ pc = "done"
    /\ NoNextLinkErrors # {}
    /\ Len(aspr_data) >= 1
    /\ page_count >= 1

\* C8: every step that invokes the next-page control starts with fewer than
\* collection_count records, and a return from a page collection with the
\* quota met goes to the terminal stretch with no invocation.
C8_ClickOnlyBelowQuota ==
    [][/\ (EventsOf("click_next")' # EventsOf("click_next"))
            => Len(aspr_data) < collection_count
       /\ (pc = "after_page" /\ Len(aspr_data) >= collection_count)
            => (pc' = "finish" /\ io' = io)]_vars

\* quota met on the first page, rows left over, a next-page handle in hand,
\* and the run over without one invocation of it
C8_Witness ==
    /\ pc = "done"
    /\ Len(aspr_data) = collection_count
    /\ next_page_link # <<>>
    /\ row_index <= doc.nrows
    /\ EventsOf("click_next") = {}

\* C9: diagnostics are flushed once per run, in the terminal state, and never
\* while the loop is collecting or advancing pages.
C9_SingleTerminalFlush ==
    Cardinality(EventsOf("flush")) <= (IF pc = "done" THEN 1 ELSE 0)

\* C10: the record list is logged as JSON once, then exported once, then the
\* diagnostics are flushed, all on leaving the loop and not before; the
\* export is called whether or not diagnostics exist.
C10_TerminalOrder ==
    IF pc = "done"
    THEN /\ Len(io) >= 3
         /\ io[Len(io) - 2] = [type |-> "json", data |-> aspr_data]
         /\ io[Len(io) - 1].type = "export"
         /\ io[Len(io) - 1].data = aspr_data
         /\ io[Len(io)] = ConsoleErrorsAndWarnings(errors, warnings)
         /\ EventsOf("json") = {Len(io) - 2}
         /\ EventsOf("export") = {Len(io) - 1}
    ELSE EventsOf("json") = {} /\ EventsOf("export") = {}

\* a finished run that had both records and diagnostics
C10_Witness ==
    /\ pc = "done"
    /\ aspr_data # <<>>
    /\ errors # <<>>
    /\ warnings # <<>>
    /\ EventsOf("export") # {}

\* a warning text that quotes a title
Quoting(prefix, title) == <<prefix>> \o title \o <<"\".">>

LastRecord(data) == data[Len(data)]

\* C11: a row without the abstract reveal control has its abstract resolved to
\* 'N/A' in the step that starts it, with no click and no timer, and with
\* exactly one warning 'Abstract extraction failed for "<title>".' appended;
\* a row with the control goes to the wait instead; and the record appended
\* for a row without the control has abstract 'N/A' and the other synchronous
\* fields as read from the row.
C11_AbsentRevealControl ==
    [][/\ (pc = "row" /\ pc' = "cite") =>
             /\ ~cur'[1].row.absBtn
             /\ cur'[1].abstract = NA
             /\ io' = io
             /\ timers' = timers
             /\ warnings' = Append(warnings,
                                Quoting("Abstract extraction failed for \"",
                                        NormalizeEncoding(cur'[1].row.titleText)))
       /\ (pc = "row" /\ pc' = "abs_wait") => cur'[1].row.absBtn
       /\ (aspr_data' # aspr_data /\ ~cur[1].row.absBtn) =>
             /\ Len(aspr_data') = Len(aspr_data) + 1
             /\ LastRecord(aspr_data').abstract = NA
             /\ LastRecord(aspr_data').title = NormalizeEncoding(cur[1].row.titleText)
             /\ LastRecord(aspr_data').published_online_date = Trim(RawDate)
             /\ LastRecord(aspr_data').cited_by_count = Trim(RawCitedBy)
             /\ LastRecord(aspr_data').article_link = ArticleHref]_vars

\* the first row of the run had no reveal control: its record is there with
\* abstract 'N/A', a resolved citing-papers link, the warning, and no
\* abstract click so far
C11_Witness ==
    /\ Len(aspr_data) = 1
    /\ aspr_data[1].abstract = NA
    /\ aspr_data[1].all_citing_papers_link = CitedByHref
    /\ EventsOf("click_abstract") = {}
    /\ warnings = <<Quoting("Abstract extraction failed for \"", aspr_data[1].title)>>

\* C12: an export saves a file exactly when it is given at least one record;
\* a finished run with zero records has made an export call that saved
\* nothing, followed by the flush of the errors and warnings recorded.
C12_EmptyRunExport ==
    /\ \A i \in EventsOf("export") : io[i].saved = (io[i].data # <<>>)
    /\ (pc = "done" /\ aspr_data = <<>>) =>
          /\ Len(io) >= 2
          /\ io[Len(io) - 1].type = "export"
          /\ ~io[Len(io) - 1].saved
          /\ io[Len(io)] = [type |-> "flush", errors |-> errors, warnings |-> warnings]

\* a finished run with no record and with both errors and warnings
C12_Witness ==
    /\ pc = "done"
    /\ aspr_data = <<>>
    /\ errors # <<>>
    /\ warnings # <<>>
    /\ ~io[Len(io) - 1].saved

\* C13: normalising a normalised text returns it unchanged:
\* NormalizeEncoding(NormalizeEncoding(s)) = NormalizeEncoding(s).
C13_Idempotent == Len(norm) = 3 => norm[3] = norm[2]

\* the step performs the outside action t
Invoked(t) == Len(io') > Len(io) /\ io'[Len(io) + 1].type = t

\* C14: at most one timer is pending at any time; the citing-papers trigger
\* of a row is invoked only when no timer is pending and the row's abstract
\* has resolved; the abstract reveal of a row is invoked only when no timer is
\* pending and no other row is in progress; the next-page control is invoked
\* only when no timer is pending and no row is in progress.
C14_StrictlySequential ==
    [][/\ Cardinality(timers) <= 1
       /\ Cardinality(timers') <= 1
       /\ Invoked("click_dialog") =>
             (timers = {} /\ cur # <<>> /\ cur[1].abstract # <<>>)
       /\ Invoked("click_abstract") => (timers = {} /\ cur = <<>>)
       /\ Invoked("click_next") => (timers = {} /\ cur = <<>>)]_vars

\* the second row of a page waits for its citation popup, its abstract read
\* after the abstract wait, the first row's record already appended
C14_Witness ==
    /\ pc = "cite_wait"
    /\ timers = {Timeout("cite", base_load_buffer_ms)}
    /\ cur[1].abstract # NA
    /\ cur[1].abstract # <<>>
    /\ row_index = 2
    /\ Len(aspr_data) >= 1

\* the rows whose reveal phase has begun: each either had its abstract reveal
\* clicked or got the warning for the missing reveal control
RowsStarted ==
    Cardinality(EventsOf("click_abstract"))
    + Cardinality({i \in DOMAIN warnings :
                      warnings[i][1] = "Abstract extraction failed for \""})

RowTimers ==
    {Timeout("abstract", base_load_buffer_ms), Timeout("cite", base_load_buffer_ms)}

\* C15: a reveal click is made and a reveal timer is set only with fewer than
\* collection_count records; a row in progress always has room for its
\* record; the rows started are exactly the records appended plus the row in
\* progress; and with the quota met the row loop leaves the page without
\* touching the row it stands at.
C15_NoWorkPastQuota ==
    [][/\ (Invoked("click_abstract") \/ Invoked("click_dialog"))
             => Len(aspr_data) < collection_count
       /\ ((timers' \ timers) \cap RowTimers # {})
             => Len(aspr_data) < collection_count
       /\ cur' # <<>> => Len(aspr_data') < collection_count
       /\ RowsStarted' = Len(aspr_data') + Len(cur')
       /\ (pc = "row" /\ Len(aspr_data) >= collection_count)
             => /\ pc' = "after_page"
                /\ io' = io
                /\ timers' = timers
                /\ warnings' = warnings]_vars

\* two rows were started and both are records, the quota of two is met, and
\* the page has a row that was not visited
C15_Witness ==
    /\ pc = "after_page"
    /\ collection_count = 2
    /\ RowsStarted = 2
    /\ Len(aspr_data) = 2
    /\ row_index <= doc.nrows

\* page_count is the number of next-page invocations whose delay has elapsed
PageCountMatches ==
    page_count = Cardinality(EventsOf("click_next"))
                   - (IF pc = "nav_wait" THEN 1 ELSE 0)

\* C16: page_count is 0 at the start and equals, in every state, the number
\* of next-page invocations whose navigation delay has elapsed; it changes
\* only by +1, and only when the navigation timer (twice the base delay) fires.
C16_PageCountCountsClicks ==
    [][/\ PageCountMatches
       /\ PageCountMatches'
       /\ page_count' # page_count =>
             /\ page_count' = page_count + 1
             /\ pc = "nav_wait"
             /\ timers = {Timeout("navigate", 2 * base_load_buffer_ms)}
             /\ timers' = {}]_vars

\* the third page is about to be collected after two next-page invocations
C16_Witness ==
    /\ pc = "page"
    /\ page_count = 2
    /\ Cardinality(EventsOf("click_next")) = 2

\* C17: every step leaves aspr_data unchanged or appends, at the end, the one
\* record of the row in progress, and then moves to the next row of the same
\* page; row_index otherwise changes only when a page collection starts its
\* rows at the first one, and page_count never decreases: the records are in
\* page visit order and, within a page, in the order of the rows.
C17_AppendOnlyInOrder ==
    [][/\ \/ aspr_data' = aspr_data
          \/ /\ cur # <<>>
             /\ aspr_data' = Append(aspr_data,
                    Record(cur[1], LastRecord(aspr_data').all_citing_papers_link))
             /\ row_index' = row_index + 1
             /\ page_count' = page_count
             /\ cur' = <<>>
       /\ row_index' # row_index =>
             \/ aspr_data' # aspr_data
             \/ (pc = "page" /\ row_index' = 1)
       /\ page_count' >= page_count]_vars

\* two different records, the first from the only row taken on the first
\* page, the second from the first row of the second page
C17_Witness ==
    /\ Len(aspr_data) = 2
    /\ aspr_data[1] # aspr_data[2]
    /\ page_count = 1
    /\ row_index = 2
    /\ pc = "row"

IsPrefix(a, b) == Len(a) <= Len(b) /\ SubSeq(b, 1, Len(a)) = a

\* C18: a flush leaves aspr_data unchanged and leaves in errors and warnings
\* exactly what it printed; the buffers are never shortened, so each flush
\* prints again everything an earlier flush printed, and two flushes with no
\* append between them print the same.
C18_FlushKeepsBuffers ==
    [][/\ \A k \in (Len(io) + 1)..Len(io') :
             io'[k].type = "flush" =>
                 /\ io'[k].errors = errors'
                 /\ io'[k].warnings = warnings'
                 /\ aspr_data' = aspr_data
       /\ IsPrefix(errors, errors')
       /\ IsPrefix(warnings, warnings')
       /\ \A i, j \in EventsOf("flush")' :
             i < j => /\ IsPrefix(io'[i].errors, io'[j].errors)
                      /\ IsPrefix(io'[i].warnings, io'[j].warnings)]_vars

\* a finished run whose terminal flush printed again, unchanged, what a flush
\* during the loop had printed
C18_Witness ==
    /\ pc = "done"
    /\ errors # <<>>
    /\ \E i \in EventsOf("flush") : i < Len(io) /\ io[i] = io[Len(io)]

\* C19: when the run is at its terminal actions with fewer than
\* collection_count records, the last entry of errors is 'Next page link not
\* found on page <page_count>.' for the current page_count; when no error of
\* that kind was recorded, exactly collection_count records were collected.
C19_ShortRunExplained ==
    pc \in {"finish", "done"} =>
        /\ Len(aspr_data) < collection_count =>
              /\ errors # <<>>
              /\ errors[Len(errors)] =
                     <<"Next page link not found on page ">>
                         \o NumToString(page_count) \o <<".">>
        /\ (\A i \in DOMAIN errors :
                errors[i][1] # "Next page link not found on page ")
              => Len(aspr_data) = collection_count

\* a short run that went through a page with an absent container or no rows:
\* the fatal error is there, and the last error is the one naming the page
C19_Witness ==
    /\ pc = "done"
    /\ Len(aspr_data) < collection_count
    /\ page_count >= 1
    /\ FatalSignalled
    /\ errors[Len(errors)] =
           <<"Next page link not found on page ">> \o NumToString(page_count) \o <<".">>

AbstractPrefixes ==
    {"Abstract extraction failed for \"", "Abstract not found for \""}

CitePrefixes ==
    {"Popup initiation failed for \"", "Download link not found for \""}

WarningsNaming(prefixes, title) ==
    {k \in DOMAIN warnings : \E p \in prefixes : warnings[k] = Quoting(p, title)}

\* every appended record with a sentinel has a warning of that field naming
\* its title
SentinelHasWarning ==
    \A i \in DOMAIN aspr_data :
        /\ aspr_data[i].abstract = NA
              => WarningsNaming(AbstractPrefixes, aspr_data[i].title) # {}
        /\ aspr_data[i].all_citing_papers_link = NA
              => WarningsNaming(CitePrefixes, aspr_data[i].title) # {}

RecordsWith(title, field) ==
    {i \in DOMAIN aspr_data : aspr_data[i].title = title /\ aspr_data[i][field] = NA}

InProgressWith(title) ==
    {i \in DOMAIN cur : cur[i].title = title /\ cur[i].abstract = NA}

TitlesSeen ==
    {NormalizeEncoding(t) : t \in RawTitles}

\* every field-level warning belongs to a row whose field is the sentinel: the
\* warnings of a field naming a title are no more than the rows of that title
\* with that field 'N/A' (the row in progress included for the abstract)
WarningHasSentinel ==
    /\ \A k \in DOMAIN warnings :
          warnings[k][1] \in AbstractPrefixes \cup CitePrefixes
              => \E t \in TitlesSeen : warnings[k] = Quoting(warnings[k][1], t)
    /\ \A t \in TitlesSeen :
          /\ Cardinality(WarningsNaming(AbstractPrefixes, t))
                <= Cardinality(RecordsWith(t, "abstract"))
                     + Cardinality(InProgressWith(t))
          /\ Cardinality(WarningsNaming(CitePrefixes, t))
                = Cardinality(RecordsWith(t, "all_citing_papers_link"))

\* a field whose trigger is present resolves only when its timer of one base
\* delay fires
ResolvesAfterOneDelay ==
    /\ (cur # <<>> /\ cur' # <<>> /\ cur[1].abstract = <<>> /\ cur'[1].abstract # <<>>)
          => /\ cur[1].row.absBtn
             /\ timers = {Timeout("abstract", base_load_buffer_ms)}
             /\ timers' = {}
    /\ (cur = <<>> /\ cur' # <<>> /\ cur'[1].row.absBtn)
          => /\ cur'[1].abstract = <<>>
             /\ timers' = {Timeout("abstract", base_load_buffer_ms)}
    /\ (aspr_data' # aspr_data /\ cur[1].row.dlgLink)
          => /\ timers = {Timeout("cite", base_load_buffer_ms)}
             /\ timers' = {}

\* C20 as stated: in every state each appended record whose abstract or
\* citing-papers link is 'N/A' has a field-level warning naming its title,
\* each field-level warning belongs to a row whose field is 'N/A', and a field
\* whose trigger is present resolves only after one full delay.
C20_SentinelIffWarning ==
    [][SentinelHasWarning' /\ WarningHasSentinel' /\ ResolvesAfterOneDelay]_vars

\* the step resolves the abstract of the row in progress to 'N/A'
AbstractBecomesNA ==
    /\ cur' # <<>>
    /\ cur'[1].abstract = NA
    /\ (cur = <<>> \/ cur[1].abstract = <<>>)

\* C20 amended: an abstract resolves to 'N/A' either with one warning of the
\* abstract kind naming the row's title appended, or with no warning when the
\* text of the abstract element itself normalises to 'N/A'; a record is
\* appended with citing-papers link 'N/A' exactly when the step appends one
\* warning of the citing-papers kind naming its title; each field-level
\* warning belongs to a row whose field is 'N/A'; a field whose trigger is
\* present resolves only after one full delay.
C20_SentinelIffWarningAmended ==
    [][/\ AbstractBecomesNA =>
             \/ \E p \in AbstractPrefixes :
                   warnings' = Append(warnings, Quoting(p, cur'[1].title))
             \/ /\ warnings' = warnings
                /\ cur'[1].abstract_content # <<>>
                /\ NormalizeEncoding(cur'[1].abstract_content[1]) = NA
       /\ aspr_data' # aspr_data =>
             IF LastRecord(aspr_data').all_citing_papers_link = NA
             THEN \E p \in CitePrefixes :
                     warnings' = Append(warnings,
                                        Quoting(p, LastRecord(aspr_data').title))
             ELSE warnings' = warnings
       /\ WarningHasSentinel'
       /\ ResolvesAfterOneDelay]_vars

\* a record whose two triggers were present and whose two waits found
\* nothing: both fields 'N/A', both warnings naming its title
C20_Witness ==
    /\ Len(aspr_data) = 1
    /\ aspr_data[1].abstract = NA
    /\ aspr_data[1].all_citing_papers_link = NA
    /\ warnings = <<Quoting("Abstract not found for \"", aspr_data[1].title),
                    Quoting("Download link not found for \"", aspr_data[1].title)>>
    /\ Cardinality(EventsOf("click_abstract")) = 1
    /\ Cardinality(EventsOf("click_dialog")) = 1

====
